---------------------------- MODULE Spec2Model ----------------------------
(***************************************************************************)
(* usGcode-ifier (src/src/main.rs): an SVG is read and parsed, the width   *)
(* and height of its first node are filtered, parsed and scaled, the       *)
(* svg2gcode engine produces a token sequence, and main writes the tokens  *)
(* to the output file, merging X/Y/Z/F tokens onto the current line and    *)
(* dropping ';' comments.                                                  *)
(*                                                                         *)
(* Texts are sequences of one-character strings.  f64 values are exact     *)
(* rationals [n, d] in lowest terms; the scale factors of the model are    *)
(* powers of two, for which the f64 product is exact.                      *)
(***************************************************************************)
EXTENDS Integers, Sequences, FiniteSets, TLC

VARIABLES
    scale_arg,       \* args.scale: Option<f64>
    input_file,      \* content of the file at args.input_path (top-level XML items)
    program,         \* the token sequence svg2program returns for this document
    out_is_root,     \* args.output_path is "/" (parent() is None)
    fs0,             \* the output path before the run
    pc,              \* position in main
    panic_msg,       \* the panic that ended the run, "" when none
    open_result,     \* fs::File::open: "pending" | "ok" | "err"
    read_result,     \* read_to_string's Result, which main discards
    svg_xml,         \* the text buffer
    doc,             \* Option<roxmltree::Document>
    scaling_factor,  \* Option<f64>: None until line 66 has run
    doc_width,       \* Option<&str>
    doc_height,      \* Option<&str>
    filtered,        \* the strings sanitise_string has returned, in call order
    dimensions,      \* [Option<svgtypes::Length>; 2]
    engine_called,   \* svg2program has been called
    engine_dims,     \* conversion_options.dimensions as svg2program received it
    gcode,           \* Vec<Token>
    idx,             \* position of the for loop in gcode (1-based)
    fs,              \* the output path now
    output_open,     \* output_file is open
    ops,             \* file-system calls made on the output path, in order
    printed          \* the success line has been printed

env  == <<scale_arg, input_file, program, out_is_root, fs0>>
vars == <<scale_arg, input_file, program, out_is_root, fs0, pc, panic_msg,
          open_result, read_result, svg_xml, doc, scaling_factor, doc_width,
          doc_height, filtered, dimensions, engine_called, engine_dims, gcode,
          idx, fs, output_open, ops, printed>>

-----------------------------------------------------------------------------
(* Option, f64 and svgtypes::Length values *)

None    == [is_some |-> FALSE]
Some(x) == [is_some |-> TRUE, val |-> x]

RECURSIVE Gcd(_, _)
Gcd(a, b) == IF b = 0 THEN a ELSE Gcd(b, a % b)

\* the f64 n/d
Rat(n, d) == LET g == Gcd(n, d) IN
             IF g = 0 THEN [n |-> 0, d |-> 1] ELSE [n |-> n \div g, d |-> d \div g]

\* f64 multiplication
Mul(a, b) == Rat(a.n * b.n, a.d * b.d)

Length(x, u) == [number |-> x, unit |-> u]

-----------------------------------------------------------------------------
(* Characters *)

AsciiDigit == {"0", "1", "2", "3", "4", "5", "6", "7", "8", "9"}

\* U+00B2 SUPERSCRIPT TWO (category No) and U+0663 ARABIC-INDIC DIGIT THREE
\* (category Nd): numeric characters outside ASCII
NonAsciiNumeric == {"U+00B2", "U+0663"}

DigitVal(c) == CASE c = "0" -> 0 [] c = "1" -> 1 [] c = "2" -> 2 [] c = "3" -> 3
                 [] c = "4" -> 4 [] c = "5" -> 5 [] c = "6" -> 6 [] c = "7" -> 7
                 [] c = "8" -> 8 [] c = "9" -> 9

\* char::is_numeric: general categories Nd, Nl and No
is_numeric(c) == c \in AsciiDigit \cup NonAsciiNumeric


-----------------------------------------------------------------------------
(* sanitise_string *)

\* for c in s.chars() { if c.is_numeric() || c == '.' { os.push(c) } }
RECURSIVE sanitise_loop(_, _, _)
sanitise_loop(s, i, os) ==
    IF i > Len(s) THEN os
    ELSE sanitise_loop(s, i + 1,
                       IF is_numeric(s[i]) \/ s[i] = "." THEN Append(os, s[i]) ELSE os)

sanitise_string(s) == sanitise_loop(s, 1, <<>>)

-----------------------------------------------------------------------------
(* str::parse::<f64> *)

Ok(x) == [ok |-> TRUE, val |-> x]
Err   == [ok |-> FALSE]

RECURSIVE Pow10(_)
Pow10(k) == IF k = 0 THEN 1 ELSE 10 * Pow10(k - 1)

\* the number a string of ASCII digits denotes
RECURSIVE DigitsValue(_, _)
DigitsValue(s, acc) ==
    IF s = <<>> THEN acc ELSE DigitsValue(Tail(s), 10 * acc + DigitVal(Head(s)))

\* a failed parse read as 0.0 (unwrap_or_default)
parse_f64_lenient(s) ==
    LET digs == SelectSeq(s, LAMBDA c : c \in AsciiDigit)
    IN  Ok(Rat(DigitsValue(digs, 0), 1))

\* f64::from_str on a text without sign, exponent or letters (sanitise_string
\* leaves none): Digit+ | Digit+ '.' Digit* | Digit* '.' Digit+ ; anything else
\* is a ParseFloatError
parse_f64(s) ==
    LET dots   == {i \in 1..Len(s) : s[i] = "."}
        digs   == SelectSeq(s, LAMBDA c : c \in AsciiDigit)
        dotpos == CHOOSE i \in dots : TRUE
        frac   == IF dots = {} THEN 0 ELSE Len(s) - dotpos
    IN  IF /\ \A i \in 1..Len(s) : s[i] \in AsciiDigit \cup {"."}
           /\ Cardinality(dots) <= 1
           /\ Len(digs) >= 1
        THEN Ok(Rat(DigitsValue(digs, 0), Pow10(frac)))
        ELSE Err

-----------------------------------------------------------------------------
(* The write loop's treatment of one token *)

\* str::starts_with with a one-character pattern
starts_with(t, c) == Len(t) >= 1 /\ t[1] = c

\* the first character compared without regard to case
TokenPiece_AnyCase(t) ==
    IF \E c \in {"X", "Y", "Z", "F", "x", "y", "z", "f"} : starts_with(t, c)
    THEN Some(<<" ">> \o t)
    ELSE IF starts_with(t, ";") THEN None
    ELSE Some(<<"\n">> \o t)

\* the F test missing: feedrate tokens start a line
TokenPiece_NoFeed(t) ==
    IF starts_with(t, "X") \/ starts_with(t, "Y") \/ starts_with(t, "Z")
    THEN Some(<<" ">> \o t)
    ELSE IF starts_with(t, ";") THEN None
    ELSE Some(<<"\n">> \o t)

\* what the loop body writes for token t: None when it writes nothing
TokenPiece(t) ==
    IF starts_with(t, "X") \/ starts_with(t, "Y") \/ starts_with(t, "Z")
       \/ starts_with(t, "F")
    THEN Some(<<" ">> \o t)
    ELSE IF starts_with(t, ";") THEN None
    ELSE Some(<<"\n">> \o t)

-----------------------------------------------------------------------------
(* Bounds and the inputs of a run *)

MaxTokens == 3      \* longest enumerated token sequence
MaxLen    == 3      \* longest enumerated text handed to sanitise_string alone

\* attribute texts
T10mm  == <<"1", "0", "m", "m">>
T20mm  == <<"2", "0", "m", "m">>
T21cm  == <<"2", "1", ".", "0", "c", "m">>
T297cm == <<"2", "9", ".", "7", "c", "m">>
TEmpty == <<>>
TDot   == <<".">>
TDots  == <<"1", ".", "2", ".", "3">>
TUnit  == <<"m", "m">>
TSup   == <<"1", "0", "U+00B2">>
THalf  == <<".", "5">>
TFive  == <<"5", ".">>

AttrTexts == {T10mm, T20mm, T21cm, T297cm, TEmpty, TDot, TDots, TUnit, TSup,
              THalf, TFive}
AttrValues == {None} \cup {Some(a) : a \in AttrTexts}

\* top-level items of an XML text: the root element with its width and height
\* attributes, a comment or processing instruction, or text that is not XML
Element(w, h) == [kind |-> "element", width |-> w, height |-> h]
Comment       == [kind |-> "comment", width |-> None, height |-> None]
Garbage       == [kind |-> "garbage", width |-> None, height |-> None]

PlainSvg == <<Element(None, None)>>

InputFiles ==
    {<<Element(w, h)>> : w \in AttrValues, h \in AttrValues}
    \cup {<<Comment, Element(Some(T10mm), Some(T20mm))>>,
          <<Element(Some(T10mm), Some(T20mm)), Comment>>,
          <<Element(Some(TDot), Some(T20mm)), Comment>>,
          <<Element(None, None), Element(None, None)>>,
          <<Garbage>>,
          <<>>}

\* args.scale: absent, 2.0, 0.5
ScaleArgs == {None, Some(Rat(2, 1)), Some(Rat(1, 2))}

\* token texts, as Token's Display writes them
G1    == <<"G", "1">>
X5    == <<"X", "5">>
Y5    == <<"Y", "5">>
Z0    == <<"Z", "0">>
F5    == <<"F", "5">>
Cmt   == <<";", "c">>
Lx5   == <<"x", "5">>
Blank == <<>>
TokenSet == {G1, X5, Y5, Z0, F5, Cmt, Lx5, Blank}

X10      == <<"X", "1", "0", ".", "0">>
Y20      == <<"Y", "2", "0", ".", "0">>
F500     == <<"F", "5", "0", "0">>
CmtLong  == <<";", "c", "o", "m", "m", "e", "n", "t">>
Example6 == <<G1, X10, Y20, CmtLong, G1, F500>>

SeqsUpTo(S, n) == UNION {[1..k -> S] : k \in 0..n}

Programs    == SeqsUpTo(TokenSet, MaxTokens) \cup {Example6}
FewPrograms == {<<>>, <<X5, Y5>>, Example6}

\* the output path: its parent directory exists or not, and the path itself is
\* absent, a directory, or a file with some content
Old == <<"o", "l", "d">>
Path(d, k, c) == [dir |-> d, kind |-> k, content |-> c]
RootPath == Path(TRUE, "dir", <<>>)
OutputPaths == {Path(FALSE, "absent", <<>>), Path(TRUE, "absent", <<>>),
                Path(TRUE, "file", Old), Path(TRUE, "file", <<>>),
                Path(TRUE, "dir", <<>>)}

-----------------------------------------------------------------------------
(* main *)

\* the order of main's statements
Stages == <<"open_input", "read", "parse", "scale", "attrs", "resolve", "convert",
            "create_parent", "remove_existing", "open_output", "write", "done">>

\* the output path prepared before the dimensions are resolved
StagesOutputFirst ==
    <<"open_input", "read", "parse", "create_parent", "remove_existing",
      "open_output", "scale", "attrs", "resolve", "convert", "write", "done">>

StageAfter_OutputFirst(st) ==
    StagesOutputFirst[(CHOOSE i \in 1..Len(StagesOutputFirst) :
                          StagesOutputFirst[i] = st) + 1]

StageAfter(st) == Stages[(CHOOSE i \in 1..Len(Stages) : Stages[i] = st) + 1]

Start ==
    /\ panic_msg = ""
    /\ open_result = "pending"
    /\ read_result = "pending"
    /\ svg_xml = <<>>
    /\ doc = None
    /\ scaling_factor = None
    /\ filtered = <<>>
    /\ dimensions = <<None, None>>
    /\ engine_called = FALSE
    /\ engine_dims = <<None, None>>
    /\ gcode = <<>>
    /\ idx = 1
    /\ fs = fs0
    /\ output_open = FALSE
    /\ ops = <<>>
    /\ printed = FALSE

\* every document and scale with a few token sequences, and every token
\* sequence with one document: the engine is the only path from the dimensions
\* to the write loop, and its result is an input here
Init ==
    /\ \/ /\ input_file \in InputFiles
          /\ scale_arg \in ScaleArgs
          /\ program \in FewPrograms
       \/ /\ input_file = PlainSvg
          /\ scale_arg = None
          /\ program \in Programs
    /\ \/ out_is_root = TRUE /\ fs0 = RootPath
       \/ out_is_root = FALSE /\ fs0 \in OutputPaths
    /\ pc = "open_input"
    /\ doc_width = None
    /\ doc_height = None
    /\ Start

Panic(msg) == pc' = "panic" /\ panic_msg' = msg

\* line 39: fs::File::open(&args.input_path)
OpenInput ==
    /\ pc = "open_input"
    /\ \E ok \in BOOLEAN :
         IF ok THEN /\ open_result' = "ok"
                    /\ pc' = StageAfter(pc)
                    /\ panic_msg' = panic_msg
         ELSE /\ open_result' = "err"
              /\ Panic("Could not open svg file")
    /\ UNCHANGED <<env, read_result, svg_xml, doc, scaling_factor, doc_width,
                   doc_height, filtered, dimensions, engine_called, engine_dims,
                   gcode, idx, fs, output_open, ops, printed>>

\* lines 41-42: let _ = file.read_to_string(&mut svg_xml).  A failed read leaves
\* in the buffer what was read before the failure: k whole items, and when cut
\* the first part of the next one.  The Result is dropped either way.
ReadInput ==
    /\ pc = "read"
    /\ \E ok \in BOOLEAN, k \in 0..Len(input_file), cut \in BOOLEAN :
         /\ ok => (k = Len(input_file) /\ ~cut)
         /\ cut => k < Len(input_file)
         /\ svg_xml' = SubSeq(input_file, 1, k) \o (IF cut THEN <<Garbage>> ELSE <<>>)
         /\ read_result' = IF ok THEN "ok" ELSE "err"
    /\ pc' = StageAfter(pc)
    /\ UNCHANGED <<env, panic_msg, open_result, doc, scaling_factor, doc_width,
                   doc_height, filtered, dimensions, engine_called, engine_dims,
                   gcode, idx, fs, output_open, ops, printed>>

\* XML's document production: one root element among comments and processing
\* instructions
WellFormed(text) ==
    /\ Cardinality({i \in 1..Len(text) : text[i].kind = "element"}) = 1
    /\ \A i \in 1..Len(text) : text[i].kind # "garbage"

\* lines 50-63: roxmltree::Document::parse_with_options(svg_xml.as_str(), ..)
ParseXml ==
    /\ pc = "parse"
    /\ IF WellFormed(svg_xml)
       THEN /\ doc' = Some(svg_xml)
            /\ pc' = StageAfter(pc)
            /\ panic_msg' = panic_msg
       ELSE /\ doc' = doc
            /\ Panic("Could not parse svg file")
    /\ UNCHANGED <<env, open_result, read_result, svg_xml, scaling_factor,
                   doc_width, doc_height, filtered, dimensions, engine_called,
                   engine_dims, gcode, idx, fs, output_open, ops, printed>>

\* lines 66-69: args.scale, or 1.0
ScalingFactor ==
    /\ pc = "scale"
    /\ scaling_factor' = IF scale_arg.is_some THEN scale_arg ELSE Some(Rat(1, 1))
    /\ pc' = StageAfter(pc)
    /\ UNCHANGED <<env, panic_msg, open_result, read_result, svg_xml, doc,
                   doc_width, doc_height, filtered, dimensions, engine_called,
                   engine_dims, gcode, idx, fs, output_open, ops, printed>>

\* doc.root().first_child().unwrap(): the first top-level node, element or not
first_child(d) == d[1]

\* Node::attribute: None on a node that is not an element
attribute(node, name) ==
    IF node.kind # "element" THEN None
    ELSE IF name = "width" THEN node.width ELSE node.height

\* lines 71-72
Attributes ==
    /\ pc = "attrs"
    /\ doc_width' = attribute(first_child(doc.val), "width")
    /\ doc_height' = attribute(first_child(doc.val), "height")
    /\ pc' = StageAfter(pc)
    /\ UNCHANGED <<env, panic_msg, open_result, read_result, svg_xml, doc,
                   scaling_factor, filtered, dimensions, engine_called,
                   engine_dims, gcode, idx, fs, output_open, ops, printed>>

\* || in place of &&
BothPresent_Either(w, h) == w.is_some \/ h.is_some

\* line 78: doc_width.is_some() && doc_height.is_some()
BothPresent(w, h) == w.is_some /\ h.is_some

\* the scale factor left out
ScaledLength_Unscaled(x, scale) == Length(x, "Mm")

\* lines 80-84: svgtypes::Length { number: <parsed> * scaling_factor, unit: Mm }
ScaledLength(x, scale) == Length(Mul(x, scale), "Mm")

UnwrapNone == "called Option::unwrap on a None value"
UnwrapErr  == "called Result::unwrap on an Err value: ParseFloatError"

\* lines 79-90, in evaluation order: the width is unwrapped, filtered, parsed and
\* unwrapped before the height is looked at; the first failed unwrap panics
Resolved(w, h, scale) ==
    IF ~w.is_some THEN [ok |-> FALSE, msg |-> UnwrapNone, filtered |-> <<>>]
    ELSE
    LET fw == sanitise_string(w.val)
        pw == parse_f64(fw)
    IN  IF ~pw.ok THEN [ok |-> FALSE, msg |-> UnwrapErr, filtered |-> <<fw>>]
        ELSE IF ~h.is_some
        THEN [ok |-> FALSE, msg |-> UnwrapNone, filtered |-> <<fw>>]
        ELSE
        LET fh == sanitise_string(h.val)
            ph == parse_f64(fh)
        IN  IF ~ph.ok THEN [ok |-> FALSE, msg |-> UnwrapErr, filtered |-> <<fw, fh>>]
            ELSE [ok |-> TRUE, msg |-> "", filtered |-> <<fw, fh>>,
                  dims |-> <<Some(ScaledLength(pw.val, scale)),
                             Some(ScaledLength(ph.val, scale))>>]

\* lines 76-91
ResolveDimensions ==
    /\ pc = "resolve"
    /\ IF BothPresent(doc_width, doc_height)
       THEN LET r == Resolved(doc_width, doc_height, scaling_factor.val)
            IN  /\ filtered' = r.filtered
                /\ IF r.ok THEN /\ dimensions' = r.dims
                                /\ pc' = StageAfter(pc)
                                /\ panic_msg' = panic_msg
                   ELSE /\ dimensions' = dimensions
                        /\ Panic(r.msg)
       ELSE /\ UNCHANGED <<filtered, dimensions, panic_msg>>
            /\ pc' = StageAfter(pc)
    /\ UNCHANGED <<env, open_result, read_result, svg_xml, doc, scaling_factor,
                   doc_width, doc_height, engine_called, engine_dims, gcode, idx,
                   fs, output_open, ops, printed>>

\* lines 93-114: svg2program(&doc, &conversion_config, conversion_options, machine)
Convert ==
    /\ pc = "convert"
    /\ engine_called' = TRUE
    /\ engine_dims' = dimensions
    /\ gcode' = program
    /\ pc' = StageAfter(pc)
    /\ UNCHANGED <<env, panic_msg, open_result, read_result, svg_xml, doc,
                   scaling_factor, doc_width, doc_height, filtered, dimensions,
                   idx, fs, output_open, ops, printed>>

\* lines 117-126: create_dir_all on the parent, when the path has one
CreateParent ==
    /\ pc = "create_parent"
    /\ IF out_is_root
       THEN /\ pc' = StageAfter(pc)
            /\ UNCHANGED <<fs, ops, panic_msg>>
       ELSE \E ok \in BOOLEAN :
              IF ok THEN /\ fs' = [fs EXCEPT !.dir = TRUE]
                         /\ ops' = Append(ops, "create_dir_all")
                         /\ pc' = StageAfter(pc)
                         /\ panic_msg' = panic_msg
              ELSE /\ UNCHANGED <<fs, ops>>
                   /\ Panic("Could not create output file parent directory")
    /\ UNCHANGED <<env, open_result, read_result, svg_xml, doc, scaling_factor,
                   doc_width, doc_height, filtered, dimensions, engine_called,
                   engine_dims, gcode, idx, output_open, printed>>

\* the existing file left in place
AfterRemove_Kept(p) == p

\* fs::remove_file succeeded
AfterRemove(p) == [p EXCEPT !.kind = "absent", !.content = <<>>]

\* lines 128-135: try_exists, then remove_file on an existing path; remove_file
\* fails on a directory and may fail on a file
RemoveExisting ==
    /\ pc = "remove_existing"
    /\ \E exists_ok \in BOOLEAN, remove_ok \in BOOLEAN :
         IF ~exists_ok
         THEN /\ UNCHANGED <<fs, ops>>
              /\ Panic("try_exists failed")
         ELSE IF fs.kind = "absent"
         THEN /\ UNCHANGED <<fs, ops, panic_msg>>
              /\ pc' = StageAfter(pc)
         ELSE IF fs.kind = "file" /\ remove_ok
         THEN /\ fs' = AfterRemove(fs)
              /\ ops' = Append(ops, "remove_file")
              /\ pc' = StageAfter(pc)
              /\ panic_msg' = panic_msg
         ELSE /\ UNCHANGED <<fs, ops>>
              /\ Panic("Failed to remove existing file at provided output path")
    /\ UNCHANGED <<env, open_result, read_result, svg_xml, doc, scaling_factor,
                   doc_width, doc_height, filtered, dimensions, engine_called,
                   engine_dims, gcode, idx, output_open, printed>>

\* lines 137-148: OpenOptions create + write + append: a missing file is created
\* empty, an existing one keeps its content; a directory cannot be opened
OpenOutput ==
    /\ pc = "open_output"
    /\ \E ok \in BOOLEAN :
         IF ok /\ fs.dir /\ fs.kind # "dir"
         THEN /\ fs' = [fs EXCEPT !.kind = "file"]
              /\ output_open' = TRUE
              /\ ops' = Append(ops, "open")
              /\ pc' = StageAfter(pc)
              /\ panic_msg' = panic_msg
         ELSE /\ UNCHANGED <<fs, output_open, ops>>
              /\ Panic("Could not create/open output file")
    /\ UNCHANGED <<env, open_result, read_result, svg_xml, doc, scaling_factor,
                   doc_width, doc_height, filtered, dimensions, engine_called,
                   engine_dims, gcode, idx, printed>>

\* a failed write skipped: the loop goes on to the next token
WriteToken_IgnoreError ==
    /\ pc = "write"
    /\ idx <= Len(gcode)
    /\ LET piece == TokenPiece(gcode[idx])
       IN  IF ~piece.is_some
           THEN UNCHANGED <<fs, ops>>
           ELSE \E ok \in BOOLEAN, k \in 0..(Len(piece.val) - 1) :
                  /\ ok => k = 0
                  /\ ops' = Append(ops, IF ok THEN "write" ELSE "write_err")
                  /\ fs' = [fs EXCEPT !.content =
                              @ \o (IF ok THEN piece.val ELSE SubSeq(piece.val, 1, k))]
    /\ idx' = idx + 1
    /\ UNCHANGED <<env, pc, panic_msg, open_result, read_result, svg_xml, doc,
                   scaling_factor, doc_width, doc_height, filtered, dimensions,
                   engine_called, engine_dims, gcode, output_open, printed>>

\* lines 150-166, one iteration: write! appends the piece to the file; a failed
\* write may have appended the first k characters of the piece, and panics
WriteToken ==
    /\ pc = "write"
    /\ idx <= Len(gcode)
    /\ LET piece == TokenPiece(gcode[idx])
       IN  IF ~piece.is_some
           THEN /\ idx' = idx + 1
                /\ UNCHANGED <<fs, ops, pc, panic_msg>>
           ELSE \E ok \in BOOLEAN, k \in 0..(Len(piece.val) - 1) :
                  /\ ok => k = 0
                  /\ ops' = Append(ops, IF ok THEN "write" ELSE "write_err")
                  /\ IF ok
                     THEN /\ fs' = [fs EXCEPT !.content = @ \o piece.val]
                          /\ idx' = idx + 1
                          /\ UNCHANGED <<pc, panic_msg>>
                     ELSE /\ fs' = [fs EXCEPT !.content = @ \o SubSeq(piece.val, 1, k)]
                          /\ idx' = idx
                          /\ Panic("Couldn't write to file")
    /\ UNCHANGED <<env, open_result, read_result, svg_xml, doc, scaling_factor,
                   doc_width, doc_height, filtered, dimensions, engine_called,
                   engine_dims, gcode, output_open, printed>>

\* lines 168-171, after the last iteration
PrintSuccess ==
    /\ pc = "write"
    /\ idx > Len(gcode)
    /\ printed' = TRUE
    /\ pc' = StageAfter(pc)
    /\ UNCHANGED <<env, panic_msg, open_result, read_result, svg_xml, doc,
                   scaling_factor, doc_width, doc_height, filtered, dimensions,
                   engine_called, engine_dims, gcode, idx, fs, output_open, ops>>

Next ==
    \/ OpenInput
    \/ ReadInput
    \/ ParseXml
    \/ ScalingFactor
    \/ Attributes
    \/ ResolveDimensions
    \/ Convert
    \/ CreateParent
    \/ RemoveExisting
    \/ OpenOutput
    \/ WriteToken
    \/ PrintSuccess

Spec == Init /\ [][Next]_vars

-----------------------------------------------------------------------------
(* sanitise_string on its own: every text up to MaxLen over FilterAlphabet is *)
(* filtered, and the result filtered again                                    *)

FilterAlphabet == {"0", "7", ".", "m", "-", "U+00B2", "U+0663"}

InitSanitise ==
    /\ scale_arg = None
    /\ input_file = PlainSvg
    /\ program = <<>>
    /\ out_is_root = FALSE
    /\ fs0 = Path(TRUE, "absent", <<>>)
    /\ pc = "sanitise"
    /\ Start
    /\ doc_height = None
    /\ \E s \in SeqsUpTo(FilterAlphabet, MaxLen) : doc_width = Some(s)

SanitiseOnce ==
    /\ pc = "sanitise"
    /\ filtered' = <<sanitise_string(doc_width.val)>>
    /\ pc' = "sanitise_again"
    /\ UNCHANGED <<env, panic_msg, open_result, read_result, svg_xml, doc,
                   scaling_factor, doc_width, doc_height, dimensions,
                   engine_called, engine_dims, gcode, idx, fs, output_open, ops,
                   printed>>

SanitiseAgain ==
    /\ pc = "sanitise_again"
    /\ filtered' = Append(filtered, sanitise_string(filtered[1]))
    /\ pc' = "sanitised"
    /\ UNCHANGED <<env, panic_msg, open_result, read_result, svg_xml, doc,
                   scaling_factor, doc_width, doc_height, dimensions,
                   engine_called, engine_dims, gcode, idx, fs, output_open, ops,
                   printed>>

NextSanitise == SanitiseOnce \/ SanitiseAgain

SpecSanitise == InitSanitise /\ [][NextSanitise]_vars

-----------------------------------------------------------------------------
(* What the claims speak of *)

OpenMsg  == "Could not open svg file"
ParseMsg == "Could not parse svg file"
WriteMsg == "Couldn't write to file"

\* lines 76-91 have run, to the end or to a panic
ResolveRan ==
    \/ pc \in {"convert", "create_parent", "remove_existing", "open_output",
               "write", "done"}
    \/ pc = "panic" /\ panic_msg \notin {OpenMsg, ParseMsg}

\* the piece of the output one token stands for, by the class of the token
ExpectedPiece(t) ==
    IF t # <<>> /\ t[1] \in {"X", "Y", "Z", "F"} THEN <<" ">> \o t
    ELSE IF t # <<>> /\ t[1] = ";" THEN <<>>
    ELSE <<"\n">> \o t

RECURSIVE Rendering(_)
Rendering(ts) ==
    IF ts = <<>> THEN <<>> ELSE ExpectedPiece(Head(ts)) \o Rendering(Tail(ts))

IsPrefix(a, b) == Len(a) <= Len(b) /\ a = SubSeq(b, 1, Len(a))

Count(s, c) == Cardinality({i \in 1..Len(s) : s[i] = c})

IsComment(t) == t # <<>> /\ t[1] = ";"
IsCoordinate(t) == t # <<>> /\ t[1] \in {"X", "Y", "Z", "F"}
IsCommand(t) == ~IsComment(t) /\ ~IsCoordinate(t)

\* "\nG1 X10.0 Y20.0\nG1 F500"
Example6Text ==
    <<"\n", "G", "1", " ", "X", "1", "0", ".", "0", " ", "Y", "2", "0", ".", "0",
      "\n", "G", "1", " ", "F", "5", "0", "0">>

\* C1: the text the write loop has written after any number of tokens is the
\* in-order concatenation of one piece per token (" " and the token for a token
\* starting with X, Y, Z or F, nothing for a token starting with ';', "\n" and
\* the token for any other); the three examples of the claim give the texts
\* it names.
C1_LoopWritesPieces ==
    /\ (pc \in {"write", "done"})
          => fs.content = Rendering(SubSeq(gcode, 1, idx - 1))
    /\ (pc = "done" /\ gcode = Example6) => fs.content = Example6Text
    /\ (pc = "done" /\ gcode = <<>>) => fs.content = <<>>
    /\ (pc = "done" /\ gcode = <<X5, Y5>>) => fs.content = <<" ", "X", "5", " ", "Y", "5">>

C1_Witness ==
    /\ pc = "done"
    /\ gcode = Example6
    /\ fs.content = Example6Text

\* C6: for a token sequence without comment tokens, the finished output holds
\* as many newline characters as the sequence holds command-class tokens.
C6_NewlinesCountCommands ==
    (pc = "done" /\ \A i \in 1..Len(gcode) : ~IsComment(gcode[i]))
        => Count(fs.content, "\n")
             = Cardinality({i \in 1..Len(gcode) : IsCommand(gcode[i])})

C6_Witness ==
    /\ pc = "done"
    /\ gcode = <<G1, F5, G1>>
    /\ Count(fs.content, "\n") = 2

MixedFree(d) == d[1].is_some = d[2].is_some

\* C3: the dimensions are all or nothing.  The pair main holds and the pair the
\* engine receives are never half filled; and when width or height is absent,
\* both entries are None, sanitise_string has not been called, and no unwrap
\* has panicked, whatever the attribute that is present holds.
C3_AllOrNothing ==
    /\ MixedFree(dimensions)
    /\ MixedFree(engine_dims)
    /\ (ResolveRan /\ (~doc_width.is_some \/ ~doc_height.is_some))
          => /\ dimensions = <<None, None>>
             /\ filtered = <<>>
             /\ panic_msg \notin {UnwrapNone, UnwrapErr}
             /\ engine_called => engine_dims = <<None, None>>

C3_Witness ==
    /\ engine_called
    /\ ~doc_width.is_some
    /\ doc_height = Some(TDots)
    /\ engine_dims = <<None, None>>

\* the factor the claim names: the scale given, 1.0 when none is
ClaimedScale == IF scale_arg.is_some THEN scale_arg.val ELSE [n |-> 1, d |-> 1]

Mm(n, d) == Some([number |-> [n |-> n, d |-> d], unit |-> "Mm"])

\* C4: with width and height both present and both filtering to a parseable
\* decimal, the pair is (parse(filter(width)) * scale, parse(filter(height)) *
\* scale) in millimetres, the scale being the one given or 1.0, and the engine
\* receives that pair; ("10mm", "20mm") at scale 2.0 gives (20.0, 40.0) and
\* ("21.0cm", "29.7cm") at scale 1.0 gives (21.0, 29.7).
C4_ScaledPair ==
    /\ (/\ ResolveRan
        /\ doc_width.is_some /\ doc_height.is_some
        /\ parse_f64(sanitise_string(doc_width.val)).ok
        /\ parse_f64(sanitise_string(doc_height.val)).ok)
          => /\ panic_msg \notin {UnwrapNone, UnwrapErr}
             /\ dimensions =
                  <<Some([number |-> Mul(parse_f64(sanitise_string(doc_width.val)).val,
                                         ClaimedScale),
                          unit |-> "Mm"]),
                    Some([number |-> Mul(parse_f64(sanitise_string(doc_height.val)).val,
                                         ClaimedScale),
                          unit |-> "Mm"])>>
             /\ engine_called => engine_dims = dimensions
    /\ (/\ ResolveRan
        /\ doc_width = Some(T10mm) /\ doc_height = Some(T20mm)
        /\ scale_arg = Some([n |-> 2, d |-> 1]))
          => dimensions = <<Mm(20, 1), Mm(40, 1)>>
    /\ (/\ ResolveRan
        /\ doc_width = Some(T21cm) /\ doc_height = Some(T297cm)
        /\ scale_arg = None)
          => dimensions = <<Mm(21, 1), Mm(297, 10)>>

C4_Witness ==
    /\ engine_called
    /\ doc_width = Some(T10mm)
    /\ doc_height = Some(T20mm)
    /\ scale_arg = Some([n |-> 2, d |-> 1])
    /\ engine_dims = <<Mm(20, 1), Mm(40, 1)>>

\* a filtered text that is no decimal number: no digit in it, more than one
\* '.', or a character that is neither
NotANumber(s) ==
    \/ Count(s, ".") > 1
    \/ \A i \in 1..Len(s) : s[i] \notin AsciiDigit
    \/ \E i \in 1..Len(s) : s[i] \notin AsciiDigit \cup {"."}

\* C5: with width and height both present and at least one filtering to a text
\* that is no number, the run has panicked on the failed parse: the engine has
\* not been called, nothing was written or printed, and the dimensions were
\* handed to nobody.
C5_BadDimensionFatal ==
    (/\ ResolveRan
     /\ doc_width.is_some /\ doc_height.is_some
     /\ \/ NotANumber(sanitise_string(doc_width.val))
        \/ NotANumber(sanitise_string(doc_height.val)))
       => /\ pc = "panic"
          /\ panic_msg = UnwrapErr
          /\ ~engine_called
          /\ ops = <<>>
          /\ ~printed

C5_Witness ==
    /\ pc = "panic"
    /\ panic_msg = UnwrapErr
    /\ doc_width = Some(T10mm)
    /\ doc_height = Some(TUnit)

Writes == {"write", "write_err"}

\* remove_file before open, open before every write
OpsOrdered ==
    \A i \in 1..Len(ops), j \in 1..Len(ops) :
        /\ (ops[i] = "remove_file" /\ ops[j] = "open") => i < j
        /\ (ops[i] = "open" /\ ops[j] \in Writes) => i < j
        /\ ops[j] \in Writes => \E k \in 1..(j - 1) : ops[k] = "open"

\* C7: when the success line has been printed, the output file holds exactly
\* the rendering of the engine's tokens, whether the path was absent before
\* the run or held a file, which was then removed; and in every run the
\* removal comes before the open and the open before the first write.
C7_FreshOutput ==
    /\ OpsOrdered
    /\ printed
         => /\ fs.kind = "file"
            /\ fs.content = Rendering(gcode)
            /\ fs0.kind = "file"
                 => \E i \in 1..Len(ops) : ops[i] = "remove_file"

C7_Witness ==
    /\ printed
    /\ fs0 = Path(TRUE, "file", Old)
    /\ gcode = Example6
    /\ fs.content = Example6Text

C9_InputFailureFatal ==
    (open_result = "err" \/ read_result = "err" \/ panic_msg = ParseMsg)
       => /\ pc \in {"parse", "panic"}
          /\ ~doc.is_some
          /\ ~engine_called
          /\ fs = fs0

\* C10: a run that panics on the input file, on the XML or on a width or
\* height that does not parse has made no call on the output path: the path
\* is as it was before the run, no directory was created and no file opened.
C10_EarlyPanicLeavesOutput ==
    (pc = "panic" /\ panic_msg \in {OpenMsg, ParseMsg, UnwrapErr, UnwrapNone})
       => /\ fs = fs0
          /\ ops = <<>>
          /\ ~output_open

C10_Witness ==
    /\ pc = "panic"
    /\ panic_msg = UnwrapErr
    /\ fs0 = Path(TRUE, "file", Old)
    /\ fs = fs0

\* the characters '0'..'9' and '.' of s, in order
AsciiSubsequence(s) == SelectSeq(s, LAMBDA c : c \in AsciiDigit \cup {"."})

\* C2 (as the claim states it): sanitise_string(s) is the subsequence of s made
\* of the ASCII digits and '.', nothing else surviving, and filtering the
\* result again changes nothing.
C2_AsciiDigitsAndDot ==
    /\ Len(filtered) >= 1 => filtered[1] = AsciiSubsequence(doc_width.val)
    /\ Len(filtered) >= 2 => filtered[2] = filtered[1]

=============================================================================
